---- MODULE Spec2Model ----
(***************************************************************************)
(* Model of the coretime market simulator (src/coretime_market.py and its  *)
(* caller src/streamlit_app.py).                                           *)
(*                                                                         *)
(* Number representation.  The program computes with Python/numpy numbers; *)
(* the model uses exact integers:                                          *)
(*   - a quantity is a whole number of 1/QScale cores, so that fractional  *)
(*     quantities (the int() casts of the code truncate them) are inputs;  *)
(*   - supply, sold and unsold are whole cores;                            *)
(*   - a price is a whole number of price units; a product with the        *)
(*     premium or with exp() is rounded down to the unit;                  *)
(*   - the premium is a whole number of 1/PremScale;                       *)
(*   - desired capacity is a whole number of 1/DesScale;                   *)
(*   - capacity = sold / supply is the exact fraction [num, den];          *)
(*   - exp() is a fixed-point value in 1/ExpScale, computed by its series. *)
(***************************************************************************)
EXTENDS Integers, Sequences, FiniteSets

\* ----------------------------------------------------------------- scales
QScale == 2
PremScale == 2
DesScale == 2
ExpScale == 100

\* ------------------------------------------------------- program constants
NumPlayers == 3
FixedIncrement == 100
PMin == 1
InitialReserve == 1000

\* ----------------------------------------------------------------- bounds
AuctionReserve == 2
MaxQuantity == 3
MaxSupply == 2
MaxRounds == 2
MaxK == 2

\* -------------------------------------------------------- small arithmetic
Min(a, b) == IF a <= b THEN a ELSE b

Max(a, b) == IF a >= b THEN a ELSE b

\* Python's int() of the value n / QScale: truncation towards zero.
ToInt(n) == IF n >= 0 THEN n \div QScale ELSE -((-n) \div QScale)

RECURSIVE SumSeq(_)
SumSeq(s) == IF s = <<>> THEN 0 ELSE Head(s) + SumSeq(Tail(s))

\* ------------------------------------------------------------- parse_bids
\* raw_bids = <<quantities, prices>>; timing is the np.random.rand draw, one
\* value per player id.  The DataFrame constructor raises ValueError when its
\* columns differ in length.
parse_bids(raw_bids, player_ids, timing) ==
    LET quantities == raw_bids[1]
        prices == raw_bids[2]
        n == Len(player_ids)
    IN  IF Len(quantities) # n \/ Len(prices) # n
        THEN [error |-> "ValueError", df |-> <<>>]
        ELSE [error |-> "none",
              df |-> [i \in 1..n |->
                        [player_id |-> player_ids[i],
                         quantity |-> quantities[i],
                         price |-> prices[i],
                         timing |-> timing[i]]]]

\* ------------------------------------------------- compute_clearing_price
\* reserve_price * premium
max_acc(reserve_price, premium) == (reserve_price * premium) \div PremScale

\* df['price'].clip(upper=max_acc)
clip(df, upper) ==
    [i \in 1..Len(df) |-> [df[i] EXCEPT !.price = Min(df[i].price, upper)]]

\* the player ids of the bids above the cap (the warning that is printed)
too_high(df, upper) ==
    [i \in 1..Len(SelectSeq(df, LAMBDA b : b.price > upper)) |->
        SelectSeq(df, LAMBDA b : b.price > upper)[i].player_id]

\* mutant: a bid at the reserve price is dropped
m_valid_bids(df, reserve_price) ==
    SelectSeq(df, LAMBDA b : b.price > reserve_price /\ b.quantity > 0)

\* df[(df['price'] >= reserve_price) & (df['quantity'] > 0)]
valid_bids(df, reserve_price) ==
    SelectSeq(df, LAMBDA b : b.price >= reserve_price /\ b.quantity > 0)

\* a sorts before b: price descending, timing ascending
Before(a, b) ==
    \/ a.price > b.price
    \/ a.price = b.price /\ a.timing < b.timing

RECURSIVE InsertSorted(_, _)
InsertSorted(s, x) ==
    IF s = <<>> THEN <<x>>
    ELSE IF Before(x, Head(s)) THEN <<x>> \o s
    ELSE <<Head(s)>> \o InsertSorted(Tail(s), x)

\* sort_values(['price','timing'], ascending=[False,True]): a stable sort
RECURSIVE sort_values(_)
sort_values(s) ==
    IF s = <<>> THEN <<>>
    ELSE InsertSorted(sort_values(SubSeq(s, 1, Len(s) - 1)), s[Len(s)])

\* valid['quantity'].cumsum()
cumsum(s) == [i \in 1..Len(s) |-> SumSeq([j \in 1..i |-> s[j].quantity])]

\* mutant: side='right'
m_searchsorted(cum, v) == 1 + Cardinality({i \in 1..Len(cum) : cum[i] <= v})

\* cum.searchsorted(v, side='left') on an ascending sequence, as a 1-based
\* position: one more than the number of entries below v
searchsorted(cum, v) == 1 + Cardinality({i \in 1..Len(cum) : cum[i] < v})

\* The result: error is "none" or the exception raised; capacity is the
\* fraction sold / supply.
compute_clearing_price(bids, supply, reserve_price, premium) ==
    LET cap == max_acc(reserve_price, premium)
        df == clip(bids, cap)
        unsorted == valid_bids(df, reserve_price)
        valid == sort_values(unsorted)
        cum == cumsum(valid)
        target == supply * QScale
        idx == searchsorted(cum, target)
        short == idx > Len(valid) \/ cum[Len(valid)] < target
        p_clear == IF short THEN reserve_price ELSE valid[idx].price
        sold == IF short THEN ToInt(cum[Len(valid)])
                ELSE ToInt(Min(target, cum[idx]))
    IN  IF unsorted = <<>>
        THEN [error |-> "none", p_clear |-> 0,
              capacity |-> [num |-> 0, den |-> 1],
              valid |-> <<>>, warned |-> too_high(bids, cap)]
        ELSE IF supply = 0
        THEN [error |-> "ZeroDivisionError", p_clear |-> p_clear,
              capacity |-> [num |-> sold, den |-> 0],
              valid |-> valid, warned |-> too_high(bids, cap)]
        ELSE [error |-> "none", p_clear |-> p_clear,
              capacity |-> [num |-> sold, den |-> supply],
              valid |-> valid, warned |-> too_high(bids, cap)]

\* ---------------------------------------------------------- allocate_cores
\* mutant: the take is not capped at the remaining supply
RECURSIVE m_alloc_loop(_, _)
m_alloc_loop(rows, remaining) ==
    IF rows = <<>> THEN <<>>
    ELSE LET take == Head(rows).quantity
         IN  IF remaining - take <= 0 THEN <<take>>
             ELSE <<take>> \o m_alloc_loop(Tail(rows), remaining - take)

\* The loop over filtered_bids.iterrows(): the allocations made so far.
RECURSIVE alloc_loop(_, _)
alloc_loop(rows, remaining) ==
    IF rows = <<>> THEN <<>>
    ELSE LET take == Min(Head(rows).quantity, remaining)
         IN  IF remaining - take <= 0 THEN <<take>>
             ELSE <<take>> \o alloc_loop(Tail(rows), remaining - take)

\* mutant: sold sums the requested quantities of the rows, not the takes
m_allocate_cores(filtered_bids, supply, p_clear) ==
    IF filtered_bids = <<>>
    THEN [df |-> <<>>, sold |-> 0, unsold |-> supply]
    ELSE LET allocs == alloc_loop(filtered_bids, supply * QScale)
             sold == ToInt(SumSeq([i \in 1..Len(allocs) |->
                                     filtered_bids[i].quantity]))
         IN  [df |-> [i \in 1..Len(allocs) |->
                        [player_id |-> filtered_bids[i].player_id,
                         price |-> p_clear,
                         allocated |-> allocs[i]]],
              sold |-> sold,
              unsold |-> supply - sold]

allocate_cores(filtered_bids, supply, p_clear) ==
    IF filtered_bids = <<>>
    THEN [df |-> <<>>, sold |-> 0, unsold |-> supply]
    ELSE LET allocs == alloc_loop(filtered_bids, supply * QScale)
             sold == ToInt(SumSeq(allocs))
         IN  [df |-> [i \in 1..Len(allocs) |->
                        [player_id |-> filtered_bids[i].player_id,
                         price |-> p_clear,
                         allocated |-> allocs[i]]],
              sold |-> sold,
              unsold |-> supply - sold]

\* ----------------------------------------------------------- apply_premium
\* p_clear * (1 + premium)
apply_premium(p_clear, premium) ==
    (p_clear * (PremScale + premium)) \div PremScale

\* ------------------------------------------------------------- run_auction
\* An exception leaves run_auction: nothing is returned.
raised(error, calls) ==
    [error |-> error, returned |-> FALSE, calls |-> calls,
     p_clear |-> 0, p_market |-> 0, capacity |-> [num |-> 0, den |-> 1],
     sold |-> 0, unsold |-> 0, allocations |-> <<>>,
     valid |-> <<>>, warned |-> <<>>]

\* calls lists the functions entered, in order, before the return or raise.
run_auction(raw_bids, player_ids, timing, supply, reserve_price, premium) ==
    LET parsed == parse_bids(raw_bids, player_ids, timing)
        cc == compute_clearing_price(parsed.df, supply, reserve_price, premium)
        al == allocate_cores(cc.valid, supply, cc.p_clear)
    IN  IF parsed.error # "none"
        THEN raised(parsed.error, <<"parse_bids">>)
        ELSE IF cc.error # "none"
        THEN raised(cc.error, <<"parse_bids", "compute_clearing_price">>)
        ELSE [error |-> "none", returned |-> TRUE,
              calls |-> <<"parse_bids", "compute_clearing_price",
                          "allocate_cores", "apply_premium">>,
              p_clear |-> cc.p_clear,
              p_market |-> apply_premium(cc.p_clear, premium),
              capacity |-> cc.capacity,
              sold |-> al.sold,
              unsold |-> al.unsold,
              allocations |-> al.df,
              valid |-> cc.valid,
              warned |-> cc.warned]

\* ---------------------------------------------------- adjust_reserve_price
\* The series 1 + x + x^2/2! + ... of exp(x) for x = xn / xd >= 0, in
\* 1/ExpScale; term is the n-th term.
RECURSIVE exp_series(_, _, _, _)
exp_series(xn, xd, n, term) ==
    IF term = 0 THEN 0
    ELSE term + exp_series(xn, xd, n + 1, (term * xn) \div (xd * (n + 1)))

\* np.exp(xn / xd) in 1/ExpScale (xd > 0)
exp(xn, xd) ==
    IF xn >= 0 THEN exp_series(xn, xd, 0, ExpScale)
    ELSE (ExpScale * ExpScale) \div exp_series(-xn, xd, 0, ExpScale)

\* capacity >= 1.0, for the fraction capacity (den > 0)
at_full_capacity(capacity) == capacity.num >= capacity.den

\* mutant: the minimum increment is applied whatever the capacity
m_adjust_increment(p_old, capacity, desired, k, p_min) ==
    LET xn == k * (capacity.num * DesScale - desired * capacity.den)
        xd == capacity.den * DesScale
        p_exp == (p_old * exp(xn, xd)) \div ExpScale
    IN  Max(Max(p_exp, p_old + FixedIncrement), p_min)

\* mutant: the floor p_min is not applied
m_adjust_no_floor(p_old, capacity, desired, k, p_min) ==
    LET xn == k * (capacity.num * DesScale - desired * capacity.den)
        xd == capacity.den * DesScale
        p_exp == (p_old * exp(xn, xd)) \div ExpScale
    IN  IF at_full_capacity(capacity)
        THEN Max(p_exp, p_old + FixedIncrement)
        ELSE p_exp

\* mutant: the gain k is left out of the exponent
m_adjust_no_gain(p_old, capacity, desired, k, p_min) ==
    LET xn == capacity.num * DesScale - desired * capacity.den
        xd == capacity.den * DesScale
        p_exp == (p_old * exp(xn, xd)) \div ExpScale
        p_new == IF at_full_capacity(capacity)
                 THEN Max(p_exp, p_old + FixedIncrement)
                 ELSE p_exp
    IN  Max(p_new, p_min)

adjust_reserve_price(p_old, capacity, desired, k, p_min) ==
    LET xn == k * (capacity.num * DesScale - desired * capacity.den)
        xd == capacity.den * DesScale
        p_exp == (p_old * exp(xn, xd)) \div ExpScale
        p_new == IF at_full_capacity(capacity)
                 THEN Max(p_exp, p_old + FixedIncrement)
                 ELSE p_exp
    IN  Max(p_new, p_min)

\* ------------------------------------------------------------------ state
VARIABLES
    pc,       \* where the running function is: "call", "loop" or "done"
    call,     \* the arguments of the run_auction call
    out,      \* what run_auction returned or raised
    cfg,      \* simulate_market's reserve_init, premium, desired_capacity, k
    rp,       \* simulate_market's rp
    results,  \* simulate_market's results
    used,     \* the reserve price passed to run_auction, per round
    adj       \* the last adjust_reserve_price call and its result

vars == <<pc, call, out, cfg, rp, results, used, adj>>

not_called == raised("none", <<>>)

no_call ==
    [raw_bids |-> <<<<>>, <<>>>>, player_ids |-> <<>>, timing |-> <<>>,
     supply |-> 1, reserve_price |-> 0, premium |-> PremScale]

no_cfg ==
    [reserve_init |-> 0, premium |-> PremScale, desired_capacity |-> 0, k |-> 0]

no_adj ==
    [p_old |-> 0, capacity |-> [num |-> 0, den |-> 1], desired |-> 0,
     k |-> 0, p_new |-> 0, called |-> FALSE]

\* ----------------------------------------------------------------- inputs
player_ids == [i \in 1..NumPlayers |-> i]

\* np.random.rand draws distinct values: the timing column is a ranking
Timings(n) ==
    {f \in [1..n -> 1..n] : \A i, j \in 1..n : i # j => f[i] # f[j]}

Quantities == 0..MaxQuantity

\* prices below the reserve, at it, just above it, and above twice it
PriceChoices(reserve_price) ==
    {reserve_price - 1, reserve_price, reserve_price + 1, 2 * reserve_price + 1}

\* the premium as the caller sets it: 100% .. 500%, 200% by default
DefaultPremium == 2 * PremScale

Premiums == {PremScale, DefaultPremium}

Supplies == 1..MaxSupply

Calls ==
    [raw_bids : [1..NumPlayers -> Quantities]
                    \X [1..NumPlayers -> PriceChoices(AuctionReserve)],
     player_ids : {player_ids},
     timing : Timings(NumPlayers),
     supply : Supplies,
     reserve_price : {AuctionReserve},
     premium : Premiums]

\* The documented end-to-end example: supply 10, reserve 100, premium 1.0,
\* bids (6 at 250), (5 at 150), (4 at 90), under any draw of the timing.
ExampleCalls ==
    [raw_bids : {<<<<6 * QScale, 5 * QScale, 4 * QScale>>, <<250, 150, 90>>>>},
     player_ids : {<<1, 2, 3>>},
     timing : Timings(3),
     supply : {10},
     reserve_price : {100},
     premium : {PremScale}]

\* ------------------------------------------------ one run_auction call
InitAuction ==
    /\ pc = "call"
    /\ call \in Calls \cup ExampleCalls
    /\ out = not_called
    /\ cfg = no_cfg
    /\ rp = 0
    /\ results = <<>>
    /\ used = <<>>
    /\ adj = no_adj

RunAuction ==
    /\ pc = "call"
    /\ out' = run_auction(call.raw_bids, call.player_ids, call.timing,
                          call.supply, call.reserve_price, call.premium)
    /\ pc' = "done"
    /\ UNCHANGED <<call, cfg, rp, results, used, adj>>

NextAuction == RunAuction

SpecAuction == InitAuction /\ [][NextAuction]_vars

\* ------------------------------- run_auction on any configuration at all
\* supply <= 0, premium < 1, a negative reserve price and columns of
\* different lengths included
ConfigCalls ==
    UNION {[raw_bids : [1..nq -> {0, QScale}]
                          \X [1..np -> {rv, rv + 1}],
            player_ids : {player_ids},
            timing : Timings(NumPlayers),
            supply : -1..1,
            reserve_price : {rv},
            premium : 0..PremScale] :
           nq \in {NumPlayers - 1, NumPlayers},
           np \in {NumPlayers - 1, NumPlayers},
           rv \in {-AuctionReserve, AuctionReserve}}

InitConfig ==
    /\ pc = "call"
    /\ call \in ConfigCalls
    /\ out = not_called
    /\ cfg = no_cfg
    /\ rp = 0
    /\ results = <<>>
    /\ used = <<>>
    /\ adj = no_adj

SpecConfig == InitConfig /\ [][NextAuction]_vars

\* ------------------------------------------- one adjust_reserve_price call
Capacities ==
    UNION {[num : 0..(d + 1), den : {d}] : d \in 1..MaxSupply}

Desired == 0..DesScale

Gains == 0..MaxK

InitController ==
    /\ pc = "call"
    /\ adj \in [p_old : {0, PMin, FixedIncrement, InitialReserve},
                capacity : Capacities,
                desired : Desired,
                k : Gains,
                p_new : {0},
                called : {FALSE}]
    /\ call = no_call
    /\ out = not_called
    /\ cfg = no_cfg
    /\ rp = 0
    /\ results = <<>>
    /\ used = <<>>

Adjust ==
    /\ pc = "call"
    /\ adj' = [adj EXCEPT
                 !.p_new = adjust_reserve_price(adj.p_old, adj.capacity,
                                                adj.desired, adj.k, PMin),
                 !.called = TRUE]
    /\ pc' = "done"
    /\ UNCHANGED <<call, out, cfg, rp, results, used>>

NextController == Adjust

SpecController == InitController /\ [][NextController]_vars

\* --------------------------------------------------------- simulate_market
sim_player_ids == <<1, 2>>

SimQuantities == {0, 1, QScale}

SimPrices(reserve_price) == {reserve_price - 1, reserve_price + 1}

\* the dictionary appended to results in round t
result_row(t, reserve_price, o) ==
    [round |-> t,
     reserve_price |-> reserve_price,
     p_clear |-> o.p_clear,
     p_market |-> o.p_market,
     capacity |-> o.capacity,
     sold |-> o.sold,
     unsold |-> o.unsold]

\* mutant: k is not passed on, so the default k = 1.0 applies
m_next_reserve(reserve_price, o, c) ==
    adjust_reserve_price(reserve_price, o.capacity, c.desired_capacity, 1, PMin)

\* rp = adjust_reserve_price(rp, out['capacity'], desired_capacity, k)
next_reserve(reserve_price, o, c) ==
    adjust_reserve_price(reserve_price, o.capacity, c.desired_capacity, c.k, PMin)

Init ==
    /\ pc = "loop"
    /\ cfg \in [reserve_init : {0, InitialReserve},
                premium : {DefaultPremium},
                desired_capacity : Desired,
                k : Gains]
    /\ rp = cfg.reserve_init
    /\ results = <<>>
    /\ used = <<>>
    /\ adj = no_adj
    /\ call = no_call
    /\ out = not_called

\* one iteration of the loop over raw_bids_list
Round ==
    /\ pc = "loop"
    /\ Len(results) < MaxRounds
    /\ \E quantities \in [1..Len(sim_player_ids) -> SimQuantities],
          prices \in [1..Len(sim_player_ids) -> SimPrices(rp)],
          timing \in Timings(Len(sim_player_ids)),
          supply \in Supplies :
          LET o == run_auction(<<quantities, prices>>, sim_player_ids, timing,
                               supply, rp, cfg.premium)
          IN  IF o.returned
              THEN /\ results' = Append(results,
                                        result_row(Len(results) + 1, rp, o))
                   /\ used' = Append(used, rp)
                   /\ rp' = next_reserve(rp, o, cfg)
                   /\ adj' = [p_old |-> rp, capacity |-> o.capacity,
                              desired |-> cfg.desired_capacity, k |-> cfg.k,
                              p_new |-> next_reserve(rp, o, cfg),
                              called |-> TRUE]
                   /\ pc' = pc
              ELSE /\ pc' = "raised"
                   /\ UNCHANGED <<results, used, rp, adj>>
    /\ UNCHANGED <<call, out, cfg>>

\* the list is exhausted: return pd.DataFrame(results)
Return ==
    /\ pc = "loop"
    /\ pc' = "done"
    /\ UNCHANGED <<call, out, cfg, rp, results, used, adj>>

Next == Round \/ Return

Spec == Init /\ [][Next]_vars

\* ------------------------------------------- what the claims speak about
\* The bids of the call, by position, with the price the clearing uses.
Bidders == 1..Len(call.player_ids)

Requested(i) == call.raw_bids[1][i]

Ceiling == (call.reserve_price * call.premium) \div PremScale

ClampedPrice(i) == Min(call.raw_bids[2][i], Ceiling)

ValidBidders ==
    {i \in Bidders : ClampedPrice(i) >= call.reserve_price /\ Requested(i) > 0}

\* i has priority over j: higher price, then lower tie key
Higher(i, j) ==
    \/ ClampedPrice(i) > ClampedPrice(j)
    \/ ClampedPrice(i) = ClampedPrice(j) /\ call.timing[i] < call.timing[j]

\* total quantity requested by the bidders of S
RECURSIVE Demand(_)
Demand(S) ==
    IF S = {} THEN 0
    ELSE LET x == CHOOSE y \in S : TRUE IN Requested(x) + Demand(S \ {x})

\* demand of the valid bidders with priority over i
DemandAbove(i) == Demand({j \in ValidBidders : Higher(j, i)})

TotalValidDemand == Demand(ValidBidders)

SupplyUnits == call.supply * QScale

\* what bidder i was allocated (0 when it has no allocation row)
Allocated(i) ==
    SumSeq([n \in 1..Len(out.allocations) |->
              IF out.allocations[n].player_id = call.player_ids[i]
              THEN out.allocations[n].allocated ELSE 0])

AllocatedTotal ==
    SumSeq([n \in 1..Len(out.allocations) |-> out.allocations[n].allocated])

Returned == pc = "done" /\ out.returned

C2_PriorityRationing ==
    Returned =>
        /\ \A i \in Bidders :
              /\ Allocated(i) >= 0
              /\ Allocated(i) <= Requested(i)
              /\ i \in ValidBidders =>
                    Allocated(i) =
                        Min(Requested(i), Max(0, SupplyUnits - DemandAbove(i)))
              /\ i \notin ValidBidders => Allocated(i) = 0
        /\ AllocatedTotal <= SupplyUnits
        /\ \A n \in 1..Len(out.allocations) :
              \E i \in ValidBidders :
                 /\ out.allocations[n].player_id = call.player_ids[i]
                 /\ Cardinality({j \in ValidBidders : Higher(j, i)}) = n - 1
        /\ \A i, j \in ValidBidders :
              Higher(i, j) /\ Allocated(j) > 0 => Allocated(i) = Requested(i)

C2_Witness ==
    /\ Returned
    /\ Cardinality(ValidBidders) = 3
    /\ \E i, j, l \in ValidBidders :
          /\ Higher(i, j) /\ Higher(j, l)
          /\ ClampedPrice(i) = ClampedPrice(j)
          /\ Allocated(i) = Requested(i)
          /\ Allocated(j) > 0 /\ Allocated(j) < Requested(j)
          /\ Allocated(l) = 0

\* the valid bidder at which the cumulative demand first reaches the supply
Crossing(i) ==
    /\ i \in ValidBidders
    /\ DemandAbove(i) < SupplyUnits
    /\ DemandAbove(i) + Requested(i) >= SupplyUnits

\* C3: when the total valid demand is at least the supply, capacity is
\* exactly 1.0 and the clearing price is the clamped price of the first bid,
\* in priority order, at which the cumulative quantity reaches the supply.
C3_ClearingAtCrossing ==
    Returned /\ TotalValidDemand >= SupplyUnits =>
        /\ out.capacity.num = out.capacity.den
        /\ \E i \in ValidBidders : Crossing(i) /\ out.p_clear = ClampedPrice(i)

C3_Witness ==
    /\ Returned
    /\ TotalValidDemand > SupplyUnits
    /\ \E i, j \in ValidBidders :
          /\ Higher(j, i) /\ Crossing(i)
          /\ ClampedPrice(j) > ClampedPrice(i)
          /\ ClampedPrice(i) > call.reserve_price
          /\ call.raw_bids[2][j] > Ceiling
          /\ out.p_clear = ClampedPrice(i)

C5_ExampleClearsAt150 ==
    pc = "done" /\ call \in ExampleCalls =>
        /\ out.returned
        /\ out.p_clear = 150
        /\ out.capacity.num = out.capacity.den
        /\ out.allocations =
              <<[player_id |-> 1, price |-> 150, allocated |-> 6 * QScale],
                [player_id |-> 2, price |-> 150, allocated |-> 4 * QScale]>>
        /\ out.sold = 10
        /\ out.unsold = 0
        /\ out.p_market = 300

\* capacity == desired, both as exact fractions
AtTarget(capacity, desired) == capacity.num * DesScale = desired * capacity.den

\* C6 (as stated): for every reserve price, k > 0 and desired capacity, a
\* round whose capacity equals the desired capacity leaves the reserve price
\* unchanged.
C6_AtTargetUnchanged ==
    adj.called /\ adj.k > 0 /\ AtTarget(adj.capacity, adj.desired) =>
        adj.p_new = adj.p_old

\* C6 (amended): for k > 0, a round whose capacity equals the desired
\* capacity leaves the reserve price unchanged when that capacity is below
\* 1.0 and the reserve price is at least the minimum reserve; at capacity
\* 1.0 the price rises by the fixed increment, and a price below the minimum
\* reserve is raised to it.
C6_AtTargetBelowFullUnchanged ==
    adj.called /\ adj.k > 0 /\ AtTarget(adj.capacity, adj.desired) =>
        /\ ~at_full_capacity(adj.capacity) /\ adj.p_old >= PMin =>
              adj.p_new = adj.p_old
        /\ at_full_capacity(adj.capacity) =>
              adj.p_new = Max(adj.p_old + FixedIncrement, PMin)
        /\ ~at_full_capacity(adj.capacity) /\ adj.p_old < PMin =>
              adj.p_new = PMin

C6_Witness ==
    /\ adj.called
    /\ adj.k > 0
    /\ AtTarget(adj.capacity, adj.desired)
    /\ adj.capacity.num > 0
    /\ ~at_full_capacity(adj.capacity)
    /\ adj.p_old = InitialReserve
    /\ adj.p_new = InitialReserve

\* every round so far cleared below full capacity
AllBelowFull ==
    \A t \in 1..Len(results) : ~at_full_capacity(results[t].capacity)

\* C7 (as stated): with k = 0 the reserve price is frozen: every call of the
\* controller returns the current price, so the reserve price of every round
\* of simulate_market is the initial one.
C7_ZeroGainFreezes ==
    cfg.k = 0 /\ pc # "call" =>
        /\ adj.called => adj.p_new = adj.p_old
        /\ rp = cfg.reserve_init
        /\ \A t \in 1..Len(results) :
              results[t].reserve_price = cfg.reserve_init

\* C7 (amended): with k = 0 the controller returns the current price when
\* capacity is below 1.0 and the price is at least the minimum reserve (at
\* capacity >= 1.0 it adds the fixed increment, and it lifts a price below
\* the minimum reserve to it); so the reserve price of simulate_market stays
\* at an initial value >= the minimum reserve as long as no round reaches
\* full capacity, and never falls.
C7_ZeroGainFreezesBelowFull ==
    cfg.k = 0 /\ pc # "call" =>
        /\ adj.called /\ ~at_full_capacity(adj.capacity)
              /\ adj.p_old >= PMin => adj.p_new = adj.p_old
        /\ adj.called /\ at_full_capacity(adj.capacity) =>
              adj.p_new = Max(adj.p_old + FixedIncrement, PMin)
        /\ AllBelowFull /\ cfg.reserve_init >= PMin =>
              /\ rp = cfg.reserve_init
              /\ \A t \in 1..Len(results) :
                    results[t].reserve_price = cfg.reserve_init
        /\ rp >= cfg.reserve_init
        /\ \A t \in 1..Len(results) :
              results[t].reserve_price >= cfg.reserve_init

C7_Witness ==
    /\ cfg.k = 0
    /\ cfg.reserve_init = InitialReserve
    /\ cfg.desired_capacity = DesScale
    /\ Len(results) = 2
    /\ AllBelowFull
    /\ \E t \in 1..2 : results[t].capacity.num > 0
    /\ rp = InitialReserve

\* C9: the controller's result is never below the minimum reserve, and at
\* capacity >= 1.0 it is at least the current price plus the fixed increment;
\* so every reserve price of simulate_market after the first round is at
\* least the minimum reserve.
C9_FloorAndIncrement ==
    /\ adj.called =>
          /\ adj.p_new >= PMin
          /\ at_full_capacity(adj.capacity) =>
                adj.p_new >= adj.p_old + FixedIncrement
    /\ Len(results) >= 1 => rp >= PMin
    /\ \A t \in 2..Len(results) : results[t].reserve_price >= PMin
    /\ \A t \in 1..(Len(results) - 1) :
          at_full_capacity(results[t].capacity) =>
             results[t + 1].reserve_price
                >= results[t].reserve_price + FixedIncrement

C9_Witness ==
    /\ Len(results) = 2
    /\ cfg.reserve_init = 0
    /\ results[2].reserve_price = PMin
    /\ at_full_capacity(results[2].capacity)
    /\ rp = PMin + FixedIncrement

\* C10: row t records the reserve price passed to run_auction in round t,
\* row 1 records reserve_init, and the reserve price of round t + 1 is
\* adjust_reserve_price(reserve of round t, capacity of round t,
\* desired_capacity, k): one controller step per round, after its outcome.
C10_RowsRecordReserveInEffect ==
    /\ Len(used) = Len(results)
    /\ \A t \in 1..Len(results) :
          /\ results[t].round = t
          /\ results[t].reserve_price = used[t]
    /\ Len(results) >= 1 => results[1].reserve_price = cfg.reserve_init
    /\ \A t \in 1..(Len(results) - 1) :
          results[t + 1].reserve_price =
             adjust_reserve_price(results[t].reserve_price,
                                  results[t].capacity,
                                  cfg.desired_capacity, cfg.k, PMin)
    /\ Len(results) = 0 => rp = cfg.reserve_init
    /\ Len(results) >= 1 =>
          rp = adjust_reserve_price(results[Len(results)].reserve_price,
                                    results[Len(results)].capacity,
                                    cfg.desired_capacity, cfg.k, PMin)

C10_Witness ==
    /\ Len(results) = 2
    /\ cfg.k = 2
    /\ results[1].reserve_price = InitialReserve
    /\ results[2].reserve_price < InitialReserve
    /\ rp > results[2].reserve_price

\* ------------------------------------------------- configuration errors
ConfigError ==
    \/ call.supply <= 0
    \/ call.premium < PremScale
    \/ call.reserve_price < 0
    \/ Len(call.raw_bids[1]) # Len(call.player_ids)
    \/ Len(call.raw_bids[2]) # Len(call.player_ids)

\* C8: a configuration error makes run_auction fail before any clearing,
\* allocation or pricing: an error is raised, nothing is returned, and
\* compute_clearing_price, allocate_cores and apply_premium are not reached.
C8_ConfigErrorsFailFast ==
    pc = "done" /\ ConfigError =>
        /\ ~out.returned
        /\ out.error # "none"
        /\ \A n \in 1..Len(out.calls) : out.calls[n] = "parse_bids"

====
